---- MODULE Spec2Model ----
(***************************************************************************)
(* Model of the weather-station ingestion server (src/Server_weath.py):    *)
(* the SQLite storage functions, the message validator, the asyncio        *)
(* per-connection handler and the dashboard handler.                       *)
(*                                                                         *)
(* Strings are sequences of one-character strings.  The database is the    *)
(* committed map from table name to rows; a save works on a private copy   *)
(* (its open transaction) and publishes it at commit.  The asyncio event   *)
(* loop is single threaded: a handler runs from one await to the next      *)
(* without any other handler running in between.                           *)
(***************************************************************************)
EXTENDS Integers, Sequences, FiniteSets, TLC

\* ------------------------------------------------------------------ bounds
MaxRows == 2    \* frames that could be stored are sent while the ledger is shorter
TickStep == 30  \* time units that pass in one Tick
MaxLimit == 3   \* largest limit asked of get_latest_data
MaxInit == 3    \* largest number of repeated calls of init_database

Conns == {"c1", "c2"}
Timestamps == {1, 2}

\* ------------------------------------------------------- program constants
TIMEOUT == 60
MAX_MESSAGE == 2048
STREAM_LIMIT == 65536

\* ------------------------------------------------------------- characters
LowerSeq == << "a","b","c","d","e","f","g","h","i","j","k","l","m",
               "n","o","p","q","r","s","t","u","v","w","x","y","z" >>
UpperSeq == << "A","B","C","D","E","F","G","H","I","J","K","L","M",
               "N","O","P","Q","R","S","T","U","V","W","X","Y","Z" >>
LowerCase == { LowerSeq[i] : i \in 1..26 }
UpperCase == { UpperSeq[i] : i \in 1..26 }
Digits == { "0","1","2","3","4","5","6","7","8","9" }

\* the character class [a-zA-Z0-9_\-] of SAFE_NAME
SafeChars == LowerCase \cup UpperCase \cup Digits \cup { "_", "-" }

\* SAFE_NAME.match(name) for ^[a-zA-Z0-9_\-]+$ : Python's $ matches at the
\* end of the string and also just before a newline that ends the string.
SAFE_NAME_match(name) ==
    LET n == Len(name)
        core == IF n > 0 /\ name[n] = "\n" THEN SubSeq(name, 1, n - 1) ELSE name
    IN  /\ Len(core) > 0
        /\ \A i \in 1..Len(core) : core[i] \in SafeChars

\* ------------------------------------------------------------ table names
WeatherData == << "w","e","a","t","h","e","r","_","d","a","t","a" >>
DataSuffix == << "_","d","a","t","a" >>
SqlitePrefix == << "s","q","l","i","t","e","_" >>

\* table = f"{station}_data"
TableName(station) == station \o DataSuffix

ToLower(ch) ==
    IF ch \in UpperCase
    THEN LowerSeq[CHOOSE i \in 1..26 : UpperSeq[i] = ch]
    ELSE ch

\* SQLite resolves table names without regard to letter case
TableKey(name) == [ i \in 1..Len(name) |-> ToLower(name[i]) ]

\* The table name is interpolated unquoted into the SQL text: the statement
\* parses only if the name is one identifier token, and SQLite refuses
\* names that start with sqlite_.
SqlNameOk(name) ==
    /\ Len(name) > 0
    /\ name[1] \in LowerCase \cup UpperCase \cup { "_" }
    /\ \A i \in 1..Len(name) : name[i] \in LowerCase \cup UpperCase \cup Digits \cup { "_" }
    /\ ~ ( /\ Len(name) >= Len(SqlitePrefix)
           /\ TableKey(SubSeq(name, 1, Len(SqlitePrefix))) = SqlitePrefix )

\* ------------------------------------------------------------------ rows
NULL == << "NULL" >>

\* A value of a JSON object as json.loads returns it and sqlite3 binds it:
\* a number (int, float or bool), a str, None, or a list or dict.  Only its
\* type and, for a number, its value matter here.
Num(n) == [ type |-> "number", val |-> n ]
JsonText == [ type |-> "string", val |-> 0 ]
JsonNull == [ type |-> "null", val |-> 0 ]
JsonArray == [ type |-> "array", val |-> 0 ]

\* sqlite3 binds int, float, str and None; a list or a dict raises
\* "Error binding parameter: type is not supported"
Bindable(v) == v.type \in { "number", "string", "null" }

\* timestamp REAL NOT NULL in the per-station schema; weather_data has no
\* such constraint
NotNullOk(t, vals) == t = WeatherData \/ vals.timestamp.type # "null"

GlobalColumns == { "id", "station_id", "timestamp", "temperature", "humidity", "wind" }
StationColumns == { "id", "timestamp", "temperature", "humidity", "wind" }

\* weather_data has the schema of init_database, every other table the
\* schema of the CREATE TABLE in save_station_data
Columns(t) == IF t = WeatherData THEN GlobalColumns ELSE StationColumns

\* INSERT INTO t (columns of vals) VALUES (vals): id is AUTOINCREMENT, a
\* column that is not named gets NULL
InsertInto(tbls, t, vals) ==
    LET row == [ col \in Columns(t) |->
                   IF col = "id" THEN Len(tbls[t]) + 1
                   ELSE IF col \in DOMAIN vals THEN vals[col]
                   ELSE NULL ]
    IN  [ tbls EXCEPT ![t] = Append(@, row) ]

\* CREATE TABLE IF NOT EXISTS t
CreateIfNotExists(tbls, t) ==
    [ k \in DOMAIN tbls \cup { t } |-> IF k \in DOMAIN tbls THEN tbls[k] ELSE << >> ]

\* the database file before anything was created in it
NoTables == [ t \in {} |-> << >> ]

\* DROP TABLE and CREATE TABLE in place of CREATE TABLE IF NOT EXISTS
init_database_Recreate(tbls) ==
    [ k \in DOMAIN tbls \cup { WeatherData } |->
        IF k = WeatherData THEN << >> ELSE tbls[k] ]

\* init_database: CREATE TABLE IF NOT EXISTS weather_data, commit, close
init_database(tbls) == CreateIfNotExists(tbls, WeatherData)

\* SELECT station_id, timestamp, temperature, humidity, wind of one row
SelectColumns(row) ==
    [ station_id |-> row.station_id, timestamp |-> row.timestamp,
      temperature |-> row.temperature, humidity |-> row.humidity, wind |-> row.wind ]

\* ORDER BY timestamp DESC in place of ORDER BY id DESC
RECURSIVE OrderByTimestampDesc(_)
OrderByTimestampDesc(rows) ==
    IF rows = {} THEN << >>
    ELSE LET top == CHOOSE r \in rows : \A q \in rows : q.timestamp.val <= r.timestamp.val
         IN  << top >> \o OrderByTimestampDesc(rows \ { top })

\* the rows of a set ORDER BY id DESC
RECURSIVE OrderByIdDesc(_)
OrderByIdDesc(rows) ==
    IF rows = {} THEN << >>
    ELSE LET top == CHOOSE r \in rows : \A q \in rows : q.id <= r.id
         IN  << top >> \o OrderByIdDesc(rows \ { top })

\* LIMIT n of SQLite: a negative n means no limit
Limit(rows, n) ==
    IF n < 0 \/ n >= Len(rows) THEN rows ELSE SubSeq(rows, 1, n)

get_latest_data(tbls, limit) ==
    LET all == { tbls[WeatherData][i] : i \in 1..Len(tbls[WeatherData]) }
        ordered == OrderByIdDesc(all)
        cut == Limit(ordered, limit)
    IN  [ i \in 1..Len(cut) |-> SelectColumns(cut[i]) ]

\* ---------------------------------------------------------------- frames
\* A frame is one line read from the socket: nbytes is its length in bytes,
\* pad the number of leading and trailing whitespace bytes (ASCII text, so
\* the stripped message has nbytes - pad characters), kind and keys what
\* json.loads makes of the stripped message.
Required == { "station_id", "timestamp", "temperature", "humidity", "wind" }

\* station ids whose table can be created, and station ids that are refused:
\* by the SQL parser (a hyphen, a newline) or by sanitize (a semicolon, empty,
\* or a JSON number in place of a string: re.match raises TypeError)
StorableIds == { << "a" >>, << "A" >>, << "w","e","a","t","h","e","r" >> }
NotAString == << "NUMBER" >>
RefusedIds == { << "a", "-" >>, << "a", "\n" >>, << "a", ";" >>, << >>, NotAString }
StationIds == StorableIds \cup RefusedIds

Json(kind, keys, station, ts) ==
    [ kind |-> kind, keys |-> keys, station_id |-> station, timestamp |-> Num(ts),
      temperature |-> Num(20), humidity |-> Num(50), wind |-> Num(8),
      nbytes |-> 100, pad |-> 0 ]

NoFrame == Json("none", {}, << >>, 0)

ObjectFrames ==
    { Json("object", Required, s, ts) : s \in StorableIds, ts \in Timestamps }
    \cup { Json("object", Required, s, 1) : s \in RefusedIds }

OtherFrames ==
    { Json("undecodable", {}, << >>, 0),
      Json("number", {}, << >>, 0),
      Json("null", {}, << >>, 0),
      Json("string", {}, << >>, 0),
      Json("array", {}, << >>, 0),
      Json("array", Required, << >>, 0),
      Json("object", Required \ { "wind" }, << "a" >>, 1) }

\* objects with all five keys whose values are not all numbers: a text
\* temperature, a null timestamp, a list as wind
TypedFrames ==
    LET f == Json("object", Required, << "a" >>, 1)
    IN  { [ f EXCEPT !.temperature = JsonText ],
          [ f EXCEPT !.timestamp = JsonNull ],
          [ f EXCEPT !.wind = JsonArray ] }

Sized(f, nbytes, pad) == [ f EXCEPT !.nbytes = nbytes, !.pad = pad ]

SizedFrames ==
    LET f == Json("object", Required, << "a" >>, 1)
    IN  { Sized(f, MAX_MESSAGE, 0), Sized(f, MAX_MESSAGE + 1, 0),
          Sized(f, 3000, 0), Sized(f, 3000, 2900),
          Sized(f, STREAM_LIMIT + 1, 0) }

\* objects that lack one of the five keys
MissingKeyFrames == { Json("object", Required \ { k }, << "a" >>, 1) : k \in Required }

Frames == ObjectFrames \cup OtherFrames \cup MissingKeyFrames \cup TypedFrames \cup SizedFrames

\* len(message) after decode and strip
MessageLen(f) == f.nbytes - f.pad

\* a check of station_id alone in place of the five keys
HasRequired_StationOnly(f) == "station_id" \in f.keys

\* required.issubset(data): every one of the five keys is a key of data
HasRequired(f) == Required \subseteq f.keys

\* required.issubset(data) raises TypeError when data is not iterable
Iterable(f) == f.kind \in { "object", "array", "string" }

\* ------------------------------------------------------------- dashboard
DEFAULT_LIMIT == 40

\* station_id.split("_"): the pieces between the underscores
RECURSIVE Split(_, _)
Split(s, sep) ==
    IF \A i \in 1..Len(s) : s[i] # sep
    THEN << s >>
    ELSE LET i == CHOOSE k \in 1..Len(s) :
                      s[k] = sep /\ \A j \in 1..(k - 1) : s[j] # sep
         IN  << SubSeq(s, 1, i - 1) >> \o Split(SubSeq(s, i + 1, Len(s)), sep)

\* parts[0] in place of parts[-1]: the station part, not the location
extract_station_location_First(station_id) ==
    LET parts == Split(station_id, "_")
    IN  IF Len(parts) > 1 THEN parts[1] ELSE station_id

extract_station_location(station_id) ==
    LET parts == Split(station_id, "_")
    IN  IF Len(parts) > 1 THEN parts[Len(parts)] ELSE station_id

\* f"{ts:.2f}": a number printed with two decimals
Fixed2(v) == [ kind |-> "fixed2", val |-> v.val ]

\* f"{t}": str() of a float, of None or of a str
PyStr(v) ==
    [ kind |-> CASE v.type = "number" -> "float"
                 [] v.type = "null" -> "None"
                 [] OTHER -> "text",
      val |-> v.val ]

\* one <tr> of the table
TableRow(r) ==
    [ location |-> extract_station_location(r.station_id),
      timestamp |-> Fixed2(r.timestamp),
      temperature |-> PyStr(r.temperature),
      humidity |-> PyStr(r.humidity),
      wind |-> PyStr(r.wind) ]

NoPage == [ status |-> "none", rows |-> << >> ]

\* handle_web: the rows of get_latest_data() as a table.  None has no
\* split and only a number takes the format .2f: such a row raises, and
\* the request is answered with status 500.
handle_web(tbls) ==
    LET rows == get_latest_data(tbls, DEFAULT_LIMIT)
    IN  IF \E i \in 1..Len(rows) :
               rows[i].station_id = NULL \/ rows[i].timestamp.type # "number"
        THEN [ status |-> "500", rows |-> << >> ]
        ELSE [ status |-> "200", rows |-> [ i \in 1..Len(rows) |-> TableRow(rows[i]) ] ]

\* ----------------------------------------------------------------- state
VARIABLES
    db,           \* committed database: table name -> sequence of rows
    work,         \* the database as the open write transaction sees it
    writer,       \* the write lock: free, held by a running save, or leaked
    pc,           \* per connection: where its handle_client task stands
    frame,        \* per connection: the frame being processed
    idle,         \* per connection: time since the pending readline started
    closeReason,  \* per connection: the exit path taken out of the read loop
    page          \* the last response of the dashboard handler

vars == << db, work, writer, pc, frame, idle, closeReason, page >>

NoConn == "-"
FreeLock == [ state |-> "free", conn |-> NoConn ]

\* an await between the two inserts of save_station_data
AtAwait_AwaitInSave(p) == p \in { "none", "connected", "readline", "closed", "create_table" }

\* the places where a task is suspended and the event loop may run another
\* one: before its first step, in `await asyncio.wait_for(reader.readline())`
\* and after the handler has ended.  process_message and save_station_data
\* contain no await.
AtAwait(p) == p \in { "none", "connected", "readline", "closed" }

\* the event loop runs one task at a time
CanRun(c) == \A d \in Conns \ { c } : AtAwait(pc[d])

\* main has called init_database on a new database file: weather_data
\* exists and is empty
Init ==
    /\ db = init_database(NoTables)
    /\ work = db
    /\ writer = FreeLock
    /\ pc = [ c \in Conns |-> "none" ]
    /\ frame = [ c \in Conns |-> NoFrame ]
    /\ idle = [ c \in Conns |-> 0 ]
    /\ closeReason = [ c \in Conns |-> "open" ]
    /\ page = NoPage

\* back at the top of the while loop, in a new wait_for(readline)
AwaitReadline(c) ==
    /\ pc' = [ pc EXCEPT ![c] = "readline" ]
    /\ frame' = [ frame EXCEPT ![c] = NoFrame ]
    /\ idle' = [ idle EXCEPT ![c] = 0 ]

\* the loop is left: finally-block, writer.close()
Close(c, why) ==
    /\ pc' = [ pc EXCEPT ![c] = "closed" ]
    /\ frame' = [ frame EXCEPT ![c] = NoFrame ]
    /\ idle' = [ idle EXCEPT ![c] = 0 ]
    /\ closeReason' = [ closeReason EXCEPT ![c] = why ]

\* start_server accepts a connection and creates its handle_client task
Accept(c) ==
    /\ pc[c] = "none"
    /\ CanRun(c)
    /\ pc' = [ pc EXCEPT ![c] = "connected" ]
    /\ UNCHANGED << db, work, writer, frame, idle, closeReason >>
    /\ UNCHANGED page

\* handle_client up to its first readline
Start(c) ==
    /\ pc[c] = "connected"
    /\ CanRun(c)
    /\ AwaitReadline(c)
    /\ UNCHANGED << db, work, writer, closeReason >>
    /\ UNCHANGED page

\* time passes while every task is suspended; an expired wait_for fires
\* before more time passes
Tick ==
    /\ \A c \in Conns : AtAwait(pc[c])
    /\ \E c \in Conns : pc[c] = "readline"
    /\ \A c \in Conns : pc[c] = "readline" => idle[c] < TIMEOUT
    /\ idle' = [ c \in Conns |->
                   IF pc[c] # "readline" THEN idle[c]
                   ELSE IF idle[c] + TickStep >= TIMEOUT THEN TIMEOUT
                   ELSE idle[c] + TickStep ]
    /\ UNCHANGED << db, work, writer, pc, frame, closeReason >>
    /\ UNCHANGED page

\* continue in place of break on asyncio.TimeoutError
Timeout_Continue(c) ==
    /\ pc[c] = "readline"
    /\ CanRun(c)
    /\ idle[c] >= TIMEOUT
    /\ AwaitReadline(c)
    /\ UNCHANGED << db, work, writer, closeReason >>
    /\ UNCHANGED page

\* asyncio.TimeoutError out of wait_for: break
Timeout(c) ==
    /\ pc[c] = "readline"
    /\ CanRun(c)
    /\ idle[c] >= TIMEOUT
    /\ Close(c, "timeout")
    /\ UNCHANGED << db, work, writer >>
    /\ UNCHANGED page

\* readline returns b"" at end of stream: break
PeerClose(c) ==
    /\ pc[c] = "readline"
    /\ CanRun(c)
    /\ idle[c] < TIMEOUT
    /\ Close(c, "eof")
    /\ UNCHANGED << db, work, writer >>
    /\ UNCHANGED page

\* process_message started with asyncio.create_task in place of await: the
\* loop reads the next line while the last one is still being processed
ReadFrame_NotAwaited(c, f) ==
    /\ pc[c] \in { "readline", "process_message", "insert_global" }
    /\ CanRun(c)
    /\ idle[c] < TIMEOUT
    /\ pc' = [ pc EXCEPT ![c] = "process_message" ]
    /\ frame' = [ frame EXCEPT ![c] = f ]
    /\ idle' = [ idle EXCEPT ![c] = 0 ]
    /\ UNCHANGED << db, work, writer, closeReason >>
    /\ UNCHANGED page

\* readline returns the line f, or raises ValueError when the line is longer
\* than the stream's limit (the handler's except-branch then ends the loop);
\* the line is decoded and stripped, and dropped when the message is longer
\* than 2048 characters
ReadFrame(c, f) ==
    /\ pc[c] = "readline"
    /\ CanRun(c)
    /\ idle[c] < TIMEOUT
    /\ (f.kind = "object" /\ HasRequired(f)) => Len(db[WeatherData]) < MaxRows
    /\ IF f.nbytes > STREAM_LIMIT
       THEN Close(c, "error")
       ELSE IF MessageLen(f) > MAX_MESSAGE
       THEN AwaitReadline(c) /\ UNCHANGED closeReason
       ELSE /\ pc' = [ pc EXCEPT ![c] = "process_message" ]
            /\ frame' = [ frame EXCEPT ![c] = f ]
            /\ idle' = [ idle EXCEPT ![c] = 0 ]
            /\ UNCHANGED closeReason
    /\ UNCHANGED << db, work, writer >>
    /\ UNCHANGED page

\* no except-branch around save_station_data: the error reaches handle_client
SaveError_Propagates(c) == Close(c, "error")

\* except Exception as e: logging.error(...) around save_station_data: the
\* error is logged, process_message returns and the read loop goes on
SaveError(c) ==
    /\ AwaitReadline(c)
    /\ UNCHANGED closeReason

\* sanitize(data["station_id"]) returns: data is a dict and the name matches
\* (otherwise TypeError or ValueError is raised)
sanitize(f) == f.kind = "object" /\ SAFE_NAME_match(f.station_id)

\* process_message up to the first statement of save_station_data after
\* sanitize: an undecodable message and a message without the required keys
\* are discarded, a TypeError of issubset is not caught here, an exception of
\* sanitize is caught and logged
process_message(c) ==
    /\ pc[c] = "process_message"
    /\ IF frame[c].kind = "undecodable"
       THEN AwaitReadline(c) /\ UNCHANGED closeReason
       ELSE IF ~ Iterable(frame[c])
       THEN Close(c, "error")
       ELSE IF ~ HasRequired(frame[c])
       THEN AwaitReadline(c) /\ UNCHANGED closeReason
       ELSE IF ~ sanitize(frame[c])
       THEN SaveError(c)
       ELSE /\ pc' = [ pc EXCEPT ![c] = "insert_global" ]
            /\ UNCHANGED << frame, idle, closeReason >>
    /\ UNCHANGED << db, work, writer >>
    /\ UNCHANGED page

\* a connection opened with isolation_level=None: the INSERT into
\* weather_data is committed as soon as it has run
InsertGlobal_Autocommit(c) ==
    /\ pc[c] = "insert_global"
    /\ IF \/ writer.state # "free"
          \/ \E k \in { "timestamp", "temperature", "humidity", "wind" } :
                ~ Bindable(frame[c][k])
       THEN /\ SaveError(c)
            /\ UNCHANGED << db, work, writer >>
       ELSE /\ work' = InsertInto(db, WeatherData,
                          [ station_id |-> frame[c].station_id,
                            timestamp |-> frame[c].timestamp,
                            temperature |-> frame[c].temperature,
                            humidity |-> frame[c].humidity,
                            wind |-> frame[c].wind ])
            /\ db' = work'
            /\ writer' = [ state |-> "held", conn |-> c ]
            /\ pc' = [ pc EXCEPT ![c] = "create_table" ]
            /\ UNCHANGED << frame, idle, closeReason >>
    /\ UNCHANGED page

\* get_db() and INSERT INTO weather_data: the statement opens the write
\* transaction, or fails with "database is locked" while another
\* connection holds it, or fails before it runs when a value cannot be bound
InsertGlobal(c) ==
    /\ pc[c] = "insert_global"
    /\ IF \/ writer.state # "free"
          \/ \E k \in { "timestamp", "temperature", "humidity", "wind" } :
                ~ Bindable(frame[c][k])
       THEN /\ SaveError(c)
            /\ UNCHANGED << work, writer >>
       ELSE /\ work' = InsertInto(db, WeatherData,
                          [ station_id |-> frame[c].station_id,
                            timestamp |-> frame[c].timestamp,
                            temperature |-> frame[c].temperature,
                            humidity |-> frame[c].humidity,
                            wind |-> frame[c].wind ])
            /\ writer' = [ state |-> "held", conn |-> c ]
            /\ pc' = [ pc EXCEPT ![c] = "create_table" ]
            /\ UNCHANGED << frame, idle, closeReason >>
    /\ UNCHANGED db
    /\ UNCHANGED page

\* CREATE TABLE IF NOT EXISTS {table}: a syntax error leaves the function
\* without commit or close, and the abandoned connection keeps its
\* transaction until the garbage collector frees it
CreateTable(c) ==
    /\ pc[c] = "create_table"
    /\ IF SqlNameOk(TableName(frame[c].station_id))
       THEN /\ work' = CreateIfNotExists(work, TableKey(TableName(frame[c].station_id)))
            /\ pc' = [ pc EXCEPT ![c] = "insert_station" ]
            /\ UNCHANGED << writer, frame, idle, closeReason >>
       ELSE /\ writer' = [ state |-> "leaked", conn |-> c ]
            /\ SaveError(c)
            /\ UNCHANGED work
    /\ UNCHANGED db
    /\ UNCHANGED page

\* INSERT INTO {table} (timestamp, temperature, humidity, wind)
\* VALUES (timestamp, temperature, wind, humidity): a NOT NULL failure
\* leaves the function like a failed CREATE TABLE does
InsertStation(c) ==
    /\ pc[c] = "insert_station"
    /\ LET t == TableKey(TableName(frame[c].station_id))
           vals == [ timestamp |-> frame[c].timestamp,
                     temperature |-> frame[c].temperature,
                     humidity |-> frame[c].wind,
                     wind |-> frame[c].humidity ]
       IN  IF NotNullOk(t, vals)
           THEN /\ work' = InsertInto(work, t, vals)
                /\ pc' = [ pc EXCEPT ![c] = "commit" ]
                /\ UNCHANGED << writer, frame, idle, closeReason >>
           ELSE /\ writer' = [ state |-> "leaked", conn |-> c ]
                /\ SaveError(c)
                /\ UNCHANGED work
    /\ UNCHANGED db
    /\ UNCHANGED page

\* conn.commit(); conn.close(); back in process_message and the read loop
Commit(c) ==
    /\ pc[c] = "commit"
    /\ db' = work
    /\ writer' = FreeLock
    /\ AwaitReadline(c)
    /\ UNCHANGED << work, closeReason >>
    /\ UNCHANGED page

\* the collector frees an abandoned connection: its transaction rolls back
GarbageCollect ==
    /\ writer.state = "leaked"
    /\ writer' = FreeLock
    /\ work' = db
    /\ UNCHANGED << db, pc, frame, idle, closeReason >>
    /\ UNCHANGED page

Next ==
    \/ \E c \in Conns : Accept(c)
    \/ \E c \in Conns : Start(c)
    \/ Tick
    \/ \E c \in Conns : Timeout(c)
    \/ \E c \in Conns : PeerClose(c)
    \/ \E c \in Conns : \E f \in Frames : ReadFrame(c, f)
    \/ \E c \in Conns : process_message(c)
    \/ \E c \in Conns : InsertGlobal(c)
    \/ \E c \in Conns : CreateTable(c)
    \/ \E c \in Conns : InsertStation(c)
    \/ \E c \in Conns : Commit(c)
    \/ GarbageCollect

Spec == Init /\ [][Next]_vars

\* The event loop runs every task that is ready (its ready queue is first
\* in, first out): a handler that has been resumed runs on to its next await,
\* and an expired wait_for is delivered even while other connections keep
\* the loop busy.
Fairness ==
    /\ \A c \in Conns : SF_vars(Timeout(c))
    /\ \A c \in Conns : WF_vars(Start(c))
    /\ \A c \in Conns : WF_vars(process_message(c))
    /\ \A c \in Conns : WF_vars(InsertGlobal(c))
    /\ \A c \in Conns : WF_vars(CreateTable(c))
    /\ \A c \in Conns : WF_vars(InsertStation(c))
    /\ \A c \in Conns : WF_vars(Commit(c))

FairSpec == Init /\ [][Next]_vars /\ Fairness

\* ------------------------------------------- storage and dashboard alone
\* save_station_data(data) from its first to its last line when no
\* statement fails
save_station_data(tbls, f) ==
    LET table == TableKey(TableName(f.station_id))
        g == InsertInto(tbls, WeatherData,
                 [ station_id |-> f.station_id, timestamp |-> f.timestamp,
                   temperature |-> f.temperature, humidity |-> f.humidity,
                   wind |-> f.wind ])
    IN  InsertInto(CreateIfNotExists(g, table), table,
                   [ timestamp |-> f.timestamp, temperature |-> f.temperature,
                     humidity |-> f.wind, wind |-> f.humidity ])

\* station ids with and without underscores
LabelIds ==
    { << "a", "_", "b" >>, << "a", "_" >>, << "_" >>, << "b" >>,
      << "a", "_", "b", "_", "c" >>, << "w","e","a","t","h","e","r" >> }

WebFrames == { Json("object", Required, s, 1) : s \in LabelIds }

\* a call of save_station_data that succeeds; it runs without an await
StoreReading(f) ==
    /\ Len(db[WeatherData]) < MaxRows
    /\ \A c \in Conns : AtAwait(pc[c])
    /\ writer = FreeLock
    /\ sanitize(f)
    /\ SqlNameOk(TableName(f.station_id))
    /\ \A k \in { "timestamp", "temperature", "humidity", "wind" } : Bindable(f[k])
    /\ NotNullOk(TableKey(TableName(f.station_id)), f)
    /\ db' = save_station_data(db, f)
    /\ work' = db'
    /\ UNCHANGED << writer, pc, frame, idle, closeReason, page >>

\* a GET / request: handle_web runs without an await
HandleWeb ==
    /\ \A c \in Conns : AtAwait(pc[c])
    /\ page' = handle_web(db)
    /\ UNCHANGED << db, work, writer, pc, frame, idle, closeReason >>

NextWeb ==
    \/ \E f \in WebFrames : StoreReading(f)
    \/ HandleWeb

WebSpec == Init /\ [][NextWeb]_vars

\* =============================================================== properties
\* the positions of a task inside save_station_data, after sanitize
SavePcs == { "insert_global", "create_table", "insert_station", "commit" }

\* the Reading a frame carries
ReadingOf(f) ==
    [ station_id |-> f.station_id, timestamp |-> f.timestamp,
      temperature |-> f.temperature, humidity |-> f.humidity, wind |-> f.wind ]

\* the station_id is non-empty and every character is in [A-Za-z0-9_-]
InSafeSet(s) == Len(s) > 0 /\ \A i \in 1..Len(s) : s[i] \in SafeChars

GlobalRowCount(tbls, s) ==
    Cardinality({ i \in 1..Len(tbls[WeatherData]) : tbls[WeatherData][i].station_id = s })

StationLedger(s) == TableKey(TableName(s))

StationRowCount(tbls, s) ==
    IF StationLedger(s) \in DOMAIN tbls THEN Len(tbls[StationLedger(s)]) ELSE 0

\* c's save_station_data returns normally in this step
SaveReturns(c) == pc[c] = "commit" /\ pc'[c] = "readline"

\* C1: once save_station_data(r) has returned successfully for a valid
\* Reading r, get_latest_data(1) returns exactly one row, and that row is r.
C1_SavedReadingIsLatest ==
    [][ \A c \in Conns :
          SaveReturns(c) => get_latest_data(db', 1) = << ReadingOf(frame[c]) >> ]_vars

\* C2: a station_id with a character outside [A-Za-z0-9_-] (the empty string
\* and a trailing newline included) is refused by sanitize: save_station_data
\* never gets past sanitize to name or address a collection with it.
C2_UnsafeIdStoppedBySanitize ==
    \A c \in Conns : pc[c] \in SavePcs => InSafeSet(frame[c].station_id)

\* C3: every successful append adds exactly one row to the global ledger and
\* one to the per-station ledger of its station_id and to no other
\* collection; afterwards every station's ledger holds as many rows as the
\* global ledger has for that station_id, and a per-station ledger exists
\* only for a station_id with a persisted reading.
C3_OneRowPerLedger ==
    [][ \A c \in Conns :
          SaveReturns(c) =>
            /\ Len(db'[WeatherData]) = Len(db[WeatherData]) + 1
            /\ \A s \in StationIds :
                 GlobalRowCount(db', s) > 0 =>
                     StationRowCount(db', s) = GlobalRowCount(db', s)
            /\ \A t \in DOMAIN db' \ { WeatherData } :
                 \E s \in StationIds :
                     StationLedger(s) = t /\ GlobalRowCount(db', s) > 0 ]_vars

\* a frame that is undecodable, or decodes to something without a required
\* field (any JSON value that is not an object included), or carries an
\* unsafe station_id
Discardable(f) ==
    \/ f.kind # "object"
    \/ ~ (Required \subseteq f.keys)
    \/ ~ InSafeSet(f.station_id)

\* C4: such a frame is discarded and the handler stays in its read loop: the
\* connection is not closed and nothing is stored.
C4_BadFrameKeepsConnection ==
    [][ \A c \in Conns :
          (pc[c] \notin { "none", "connected", "readline", "closed" }
             /\ Discardable(frame[c]))
          => (pc'[c] # "closed" /\ db' = db) ]_vars

\* C5: a frame longer than 2048 bytes is never passed to process_message.
C5_OversizedFrameDropped ==
    \A c \in Conns : pc[c] = "process_message" => frame[c].nbytes <= MAX_MESSAGE

\* save_station_data has been called for the frame of c and has not returned
SaveCalled(c) ==
    \/ pc[c] \in SavePcs
    \/ /\ pc[c] = "process_message"
       /\ Iterable(frame[c])
       /\ Required \subseteq frame[c].keys

\* C6: when save_station_data raises, process_message returns normally: the
\* connection that sent the frame is not closed.
C6_SaveErrorKeepsConnection ==
    [][ \A c \in Conns : SaveCalled(c) => pc'[c] # "closed" ]_vars

\* a save of c failed after its first insert (its abandoned transaction is
\* still there) and c is processing a following frame, inside save again
C6_Witness ==
    \E c \in Conns :
        /\ writer = [ state |-> "leaked", conn |-> c ]
        /\ pc[c] = "insert_global"

\* the database as the transaction of c must see it at each step of its
\* save: the committed rows plus the rows of its own reading, nothing else
ExpectedWork(c) ==
    LET f == frame[c]
        key == TableKey(TableName(f.station_id))
        g == InsertInto(db, WeatherData, ReadingOf(f))
        t == CreateIfNotExists(g, key)
        u == InsertInto(t, key, [ timestamp |-> f.timestamp, temperature |-> f.temperature,
                                  humidity |-> f.wind, wind |-> f.humidity ])
    IN  CASE pc[c] = "create_table" -> g
          [] pc[c] = "insert_station" -> t
          [] pc[c] = "commit" -> u

\* C7: writes are serialized: while one reading is between its global-ledger
\* insert and its commit, no other handler is inside save_station_data and
\* the open transaction holds that reading's rows and no others.
C7_WritesSerialized ==
    \A c \in Conns :
        pc[c] \in { "create_table", "insert_station", "commit" } =>
            /\ writer = [ state |-> "held", conn |-> c ]
            /\ \A d \in Conns \ { c } : pc[d] \notin SavePcs
            /\ work = ExpectedWork(c)

\* one handler is between its two inserts while the other connection is open
\* and waiting with the write lock out of its reach
C7_Witness ==
    \E c \in Conns : \E d \in Conns \ { c } :
        /\ pc[c] = "insert_station"
        /\ pc[d] = "readline"
        /\ Len(db[WeatherData]) > 0

\* C8 as stated, for every integer limit: get_latest_data(limit) never
\* returns more than limit rows (no row is returned beyond the limit-th).
C8_NeverMoreThanLimit ==
    \A l \in -1..MaxLimit :
        \A i \in 1..Len(get_latest_data(db, l)) : i <= l

\* C8 (amended): for every limit >= 0, get_latest_data(limit) returns
\* min(limit, number of rows) rows, and its i-th row is the i-th most
\* recently inserted row of the global ledger, whatever the timestamps are.
C8_NewestFirstByInsertion ==
    \A l \in 0..MaxLimit :
        LET g == db[WeatherData]
            r == get_latest_data(db, l)
            n == IF l < Len(g) THEN l ELSE Len(g)
        IN  /\ Len(r) = n
            /\ Len(r) <= l
            /\ \A i \in 1..n : r[i] = SelectColumns(g[Len(g) + 1 - i])

\* the ledger holds more rows than some limit asked for, and the row inserted
\* last carries a smaller timestamp than the row inserted before it
C8_Witness ==
    LET g == db[WeatherData]
    IN  /\ Len(g) >= 2
        /\ g[Len(g)].timestamp.val < g[Len(g) - 1].timestamp.val
        /\ get_latest_data(db, 1) = << SelectColumns(g[Len(g)]) >>

\* C9: a connection whose pending readline has received nothing for the
\* whole idle timeout is eventually closed by the server.
C9_IdleConnectionClosed ==
    \A c \in Conns : (pc[c] = "readline" /\ idle[c] >= TIMEOUT) ~> (pc[c] = "closed")

\* a connection has been closed by the timeout branch
C9_Witness ==
    \E c \in Conns : pc[c] = "closed" /\ closeReason[c] = "timeout"

\* C10: while the client keeps sending frames at intervals shorter than the
\* idle timeout the server does not close the connection, whatever the frames
\* hold: a connection is closed only after an expired timeout or the peer's
\* end of stream.
C10_ClosedOnlyIdleOrEof ==
    \A c \in Conns : pc[c] = "closed" => closeReason[c] \in { "timeout", "eof" }

\* the state of a connection in the terms of the specification
ConnState(p) ==
    CASE p = "none" -> "NONE"
      [] p = "connected" -> "CONNECTED"
      [] p = "readline" -> "READING"
      [] p = "closed" -> "CLOSED"
      [] OTHER -> "PROCESSING"

\* C11: each connection follows CONNECTED -> READING -> (PROCESSING ->
\* READING)* -> CLOSED: the handler leaves PROCESSING only back to READING,
\* reaches CLOSED only from READING, CLOSED is terminal and no frame of the
\* connection is processed after it.
C11_ConnectionLifecycle ==
    [][ \A c \in Conns :
          LET s == ConnState(pc[c])
              t == ConnState(pc'[c])
          IN  /\ s # t => << s, t >> \in { << "NONE", "CONNECTED" >>,
                                           << "CONNECTED", "READING" >>,
                                           << "READING", "PROCESSING" >>,
                                           << "PROCESSING", "READING" >>,
                                           << "READING", "CLOSED" >> }
              /\ t = "CLOSED" => frame'[c] = NoFrame ]_vars

\* every value of the reading can be bound to the INSERT statements
BindableReading(f) ==
    \A k \in { "timestamp", "temperature", "humidity", "wind" } : Bindable(f[k])

\* C12: no error in one connection or frame affects another connection: a
\* step of one handler changes the state of no other connection, and after
\* a write of one connection has failed, a save that another connection has
\* started for a storable reading does not fail because of it.
C12_ErrorsStayLocal ==
    [][ \A c \in Conns : \A d \in Conns \ { c } :
          /\ pc'[c] # pc[c] =>
                 /\ pc'[d] = pc[d]
                 /\ frame'[d] = frame[d]
                 /\ closeReason'[d] = closeReason[d]
          /\ ( /\ writer = [ state |-> "leaked", conn |-> c ]
               /\ pc[d] = "insert_global"
               /\ BindableReading(frame[d]) )
             => pc'[d] # "readline" ]_vars

\* C13: within one connection frames are processed strictly in arrival
\* order: the handler reads the next frame only when no frame of the
\* connection is in processing, and a save that returns puts its rows behind
\* every row already in the global ledger, with larger ids, and leaves the
\* earlier rows in place; so of two persisted frames of one connection the
\* one that arrived first has the lower id.
C13_FramesInArrivalOrder ==
    [][ \A c \in Conns :
          /\ (frame'[c] # frame[c] /\ frame'[c] # NoFrame) =>
                 (pc[c] = "readline" /\ frame[c] = NoFrame)
          /\ SaveReturns(c) =>
                 LET g == db[WeatherData]
                     h == db'[WeatherData]
                 IN  /\ Len(h) > Len(g)
                     /\ SubSeq(h, 1, Len(g)) = g
                     /\ h[Len(g) + 1].station_id = frame[c].station_id
                     /\ \A i \in (Len(g) + 1)..Len(h) :
                            \A j \in 1..Len(g) : h[i].id > g[j].id ]_vars

\* the only connection ever opened has a reading persisted and is about to
\* commit the reading of a later frame
C13_Witness ==
    \E c \in Conns :
        /\ \A d \in Conns \ { c } : pc[d] = "none"
        /\ Len(db[WeatherData]) >= 1
        /\ pc[c] = "commit"

\* a frame that decodes to an object lacking at least one of the five keys
MissingKey(f) == f.kind = "object" /\ ~ (Required \subseteq f.keys)

\* C14: a frame that decodes to an object missing any one of the five
\* required keys is discarded with no storage mutation: it never gets past
\* process_message, the handler's step on it leads back to readline and
\* changes no table, row, transaction or lock, and get_latest_data returns
\* the same rows as before.
C14_MissingKeyDiscarded ==
    [][ \A c \in Conns :
          (ConnState(pc[c]) = "PROCESSING" /\ MissingKey(frame[c])) =>
              /\ pc[c] = "process_message"
              /\ db' = db
              /\ get_latest_data(db', MaxLimit) = get_latest_data(db, MaxLimit)
              /\ pc'[c] # pc[c] =>
                     /\ pc'[c] = "readline"
                     /\ work' = work /\ writer' = writer ]_vars

\* a frame without the key wind is about to be validated while the global
\* ledger holds a reading
C14_Witness ==
    \E c \in Conns :
        /\ pc[c] = "process_message"
        /\ frame[c].kind = "object"
        /\ frame[c].keys = Required \ { "wind" }
        /\ Len(db[WeatherData]) >= 1

\* init_database called n times in a row
RECURSIVE InitTimes(_, _)
InitTimes(tbls, n) == IF n = 0 THEN tbls ELSE init_database(InitTimes(tbls, n - 1))

\* C15: init_database is idempotent: called N >= 1 times on an empty store,
\* or on a store that holds readings and per-station ledgers, it yields the
\* schema and contents of a single call, and it drops or alters no row.
C15_InitIdempotent ==
    \A n \in 1..MaxInit :
        /\ InitTimes(NoTables, n) = init_database(NoTables)
        /\ InitTimes(db, n) = init_database(db)
        /\ InitTimes(db, n) = db

\* the store holds readings in the global ledger and in a per-station ledger
C15_Witness ==
    /\ Len(db[WeatherData]) >= 2
    /\ \E t \in DOMAIN db \ { WeatherData } : Len(db[t]) >= 1

\* every global-ledger row that names a station has a row with its timestamp
\* and temperature in the ledger of that station
RowsPaired(tbls) ==
    \A i \in 1..Len(tbls[WeatherData]) :
        LET r == tbls[WeatherData][i]
        IN  r.station_id # NULL =>
              /\ StationLedger(r.station_id) \in DOMAIN tbls
              /\ \E j \in 1..Len(tbls[StationLedger(r.station_id)]) :
                    LET q == tbls[StationLedger(r.station_id)][j]
                    IN  q.timestamp = r.timestamp /\ q.temperature = r.temperature

\* C16: save_station_data is all-or-nothing and commits before it returns:
\* when it returns normally the committed store is the old one plus both
\* rows of the reading; the committed store changes in no other step, so a
\* call that fails (at the identifier check, the global insert, the creation
\* of the per-station table or the per-station insert) commits no row and no
\* table; no global row is ever committed without its per-station row.
C16_SaveAllOrNothing ==
    [][ /\ \A c \in Conns : SaveReturns(c) => db' = save_station_data(db, frame[c])
        /\ db' # db => \E c \in Conns : SaveReturns(c)
        /\ \A c \in Conns :
             (SaveCalled(c) /\ pc'[c] \in { "readline", "closed" } /\ ~ SaveReturns(c))
                 => db' = db
        /\ RowsPaired(db') ]_vars

\* a save has failed after its insert into the global ledger: its
\* transaction holds rows that the committed store, which has a reading of
\* an earlier call, does not show
C16_Witness ==
    \E c \in Conns :
        /\ writer = [ state |-> "leaked", conn |-> c ]
        /\ pc[c] = "readline"
        /\ Len(work[WeatherData]) > Len(db[WeatherData])
        /\ Len(db[WeatherData]) >= 1

\* C17: for every persisted reading the global-ledger row and the
\* per-station row hold the same values in the same columns: every row of a
\* per-station ledger has a global-ledger row with its timestamp,
\* temperature, humidity and wind.
C17_SameValuesInBothLedgers ==
    \A t \in DOMAIN db \ { WeatherData } :
        \A j \in 1..Len(db[t]) :
            \E i \in 1..Len(db[WeatherData]) :
                LET r == db[WeatherData][i]
                    q == db[t][j]
                IN  /\ q.timestamp = r.timestamp
                    /\ q.temperature = r.temperature
                    /\ q.humidity = r.humidity
                    /\ q.wind = r.wind

\* C18: every row of the global ledger is a well-formed Reading: its
\* station_id is a non-null string matching [A-Za-z0-9_-]+ and its
\* timestamp, temperature, humidity and wind are numbers.
C18_RowsWellFormed ==
    \A i \in 1..Len(db[WeatherData]) :
        LET r == db[WeatherData][i]
        IN  /\ r.station_id # NULL
            /\ r.station_id # NotAString
            /\ InSafeSet(r.station_id)
            /\ \A k \in { "timestamp", "temperature", "humidity", "wind" } :
                   r[k].type = "number"

\* what comes after the final underscore of s, or s when it has none
AfterLastUnderscore(s) ==
    IF \E i \in 1..Len(s) : s[i] = "_"
    THEN LET k == CHOOSE i \in 1..Len(s) :
                      s[i] = "_" /\ \A j \in (i + 1)..Len(s) : s[j] # "_"
         IN  SubSeq(s, k + 1, Len(s))
    ELSE s

\* strings to label: the stored ids, ids that are never stored, ids made of
\* underscores alone
LabelInputs ==
    LabelIds \cup (StationIds \ { NotAString }) \cup { << "_", "_" >>, << "a", "-", "b", "_", "c" >> }

\* C19: for every station_id string extract_station_location returns what
\* follows the final underscore (the empty string when the id ends with an
\* underscore) or the whole id when it has no underscore; a page that
\* handle_web serves shows that label for each of the latest rows and the
\* request changes nothing in the store; a table that a save creates is
\* named after the whole station_id of the saved row, not after its label.
C19_LocationLabel ==
    [][ /\ \A s \in LabelInputs : extract_station_location(s) = AfterLastUnderscore(s)
        /\ page' # page =>
             /\ db' = db
             /\ page'.status = "200" =>
                  LET rows == get_latest_data(db, DEFAULT_LIMIT)
                  IN  /\ Len(page'.rows) = Len(rows)
                      /\ \A i \in 1..Len(rows) :
                             page'.rows[i].location = AfterLastUnderscore(rows[i].station_id)
        /\ \A t \in DOMAIN db' \ DOMAIN db :
             t = TableKey(TableName(db'[WeatherData][Len(db[WeatherData]) + 1].station_id)) ]_vars

\* a page has been served that shows the empty label of an id ending with
\* an underscore and the label c of a_b_c
C19_Witness ==
    /\ page.status = "200"
    /\ \E i \in 1..Len(page.rows) : page.rows[i].location = << >>
    /\ \E i \in 1..Len(page.rows) : page.rows[i].location = << "c" >>
    /\ \E i \in 1..Len(db[WeatherData]) :
           db[WeatherData][i].station_id = << "a", "_", "b", "_", "c" >>

====
